---- MODULE Spec2Model ----
(***************************************************************************)
(* A model of the boolean retrieval engine of boolean_retrieval_model.py:  *)
(* InformationRetrievalSystem builds (or loads) an inverted index and a    *)
(* positional index over a corpus directory and answers simple, boolean,   *)
(* bracketed and proximity queries.                                        *)
(*                                                                         *)
(* Texts are sequences of words; a query is a sequence of lexemes (words,  *)
(* whitespace, parentheses, slash, numbers), so that the splitting,        *)
(* substring tests and placeholder substitution of the code act on text    *)
(* and not on an already parsed expression.                                *)
(***************************************************************************)
EXTENDS Integers, Sequences, FiniteSets, TLC

VARIABLES
    corpus,            \* os.listdir(docs_folder): the directory listing, in enumeration order
    indexes_json,      \* the snapshot file 'indexes.json'
    running,           \* an InformationRetrievalSystem instance exists
    doc_ids,           \* self.doc_ids: doc_id -> filename
    inverted_index,    \* self.inverted_index: term -> [doc_ids]
    positional_index,  \* self.positional_index: term -> {doc_id -> [positions]}
    origin,            \* how the running instance was constructed
    damages,           \* how many times the snapshot file was damaged
    query,             \* the last query given to process_query
    result             \* what process_query did with it

vars == <<corpus, indexes_json, running, doc_ids, inverted_index,
          positional_index, origin, damages, query, result>>

(***************************************************************************)
(* Bounds of the model.                                                    *)
(***************************************************************************)
MaxEntries == 2        \* entries of the directory listing
MaxTokens == 3         \* words of all documents of the corpus together
MaxDamages == 1        \* damages done to the snapshot file in one behaviour
MaxOps == 2            \* operators of a parenthesis-free boolean query
MaxK == 2              \* the k of a proximity query
RecursionLimit == 12   \* frames of the interpreter's call stack left to process_query

(***************************************************************************)
(* Small helpers over functions (Python dicts) and sequences (lists).      *)
(***************************************************************************)
EmptyDict == [x \in {} |-> {}]

Get(d, key, default) == IF key \in DOMAIN d THEN d[key] ELSE default

Put(d, key, value) == [x \in DOMAIN d \cup {key} |-> IF x = key THEN value ELSE d[x]]

Range(s) == {s[i] : i \in DOMAIN s}

RECURSIVE sorted(_)
\* sorted(iterable) over integers: ascending, duplicates kept
sorted(s) ==
    IF s = <<>> THEN <<>>
    ELSE LET m == CHOOSE x \in Range(s) : \A y \in Range(s) : x <= y
             i == CHOOSE j \in 1..Len(s) : s[j] = m
             rest == [j \in 1..(Len(s) - 1) |-> IF j < i THEN s[j] ELSE s[j + 1]]
         IN <<m>> \o sorted(rest)

RECURSIVE list_of(_)
\* list(a_set): some enumeration of the set; every use sorts it afterwards
list_of(S) == IF S = {} THEN <<>>
              ELSE LET x == CHOOSE y \in S : TRUE IN <<x>> \o list_of(S \ {x})

(***************************************************************************)
(* The vocabulary.  The stop-word file and the Porter stemmer are external *)
(* to the repository; they are represented by a stop word, a word that is  *)
(* lower-cased, and a word the stemmer reduces.                            *)
(***************************************************************************)
TextWords == {"Deep", "learning", "of"}

stop_words == {"of"}

lower(w) == CASE w = "Deep" -> "deep"
              [] w = "Learning" -> "learning"
              [] OTHER -> w

stem(w) == IF w = "learning" THEN "learn" ELSE w

(***************************************************************************)
(* _preprocess_text: tokens = findall(text.lower()); every token that is   *)
(* not a stop word is stemmed and paired with pos, its index in tokens.    *)
(***************************************************************************)
preprocess_text(text) ==
    LET tokens == [i \in 1..Len(text) |-> lower(text[i])]
        RECURSIVE walk(_)
        walk(i) ==
            IF i > Len(tokens) THEN <<>>
            ELSE (IF tokens[i] \notin stop_words
                  THEN << <<stem(tokens[i]), i - 1>> >>
                  ELSE <<>>) \o walk(i + 1)
    IN walk(1)

(***************************************************************************)
(* The corpus directory.  An entry of the listing has an extension and a   *)
(* text; its filename is determined by its place in the listing.           *)
(***************************************************************************)
RECURSIVE TextsOfLen(_)
TextsOfLen(n) == IF n = 0 THEN {<<>>}
                 ELSE {t \o <<w>> : t \in TextsOfLen(n - 1), w \in TextWords}

Texts == UNION {TextsOfLen(n) : n \in 0..MaxTokens}

Entries == [ext : {"txt"}, text : Texts] \cup [ext : {"png"}, text : {<<>>}]

RECURSIVE Listings(_, _)
\* the listings of n entries whose texts hold at most budget words together
Listings(n, budget) ==
    IF n = 0 THEN {<<>>}
    ELSE UNION {{<<e>> \o c : c \in Listings(n - 1, budget - Len(e.text))} :
                   e \in {x \in Entries : Len(x.text) <= budget}}

Corpora == UNION {Listings(n, MaxTokens) : n \in 0..MaxEntries}

filename_of(c, i) == [index |-> i, ext |-> c[i].ext]

docs_folder == "Abstracts"

(***************************************************************************)
(* The state of an engine instance as one value.                           *)
(***************************************************************************)
Engine(d, inv, pos) == [doc_ids |-> d, inverted_index |-> inv, positional_index |-> pos]

\* __init__, lines 20-22: empty indexes and an empty document map
new_engine == Engine(EmptyDict, EmptyDict, EmptyDict)

this_engine == Engine(doc_ids, inverted_index, positional_index)

(***************************************************************************)
(* _build_indexes, lines 74-84: one document into the indexes.             *)
(***************************************************************************)
RECURSIVE add_positions(_, _, _, _)
\* for term, position in preprocessed_tokens:
\*     self.positional_index[term][doc_id].append(position)
add_positions(pos, doc_id, toks, j) ==
    IF j > Len(toks) THEN pos
    ELSE LET term == toks[j][1]
             of_term == Get(pos, term, EmptyDict)
             old == Get(of_term, doc_id, <<>>)
         IN add_positions(Put(pos, term, Put(of_term, doc_id, Append(old, toks[j][2]))),
                          doc_id, toks, j + 1)

\* for term in terms_in_doc: self.inverted_index[term].append(doc_id)
add_postings(inv, doc_id, terms_in_doc) ==
    [t \in DOMAIN inv \cup terms_in_doc |->
        IF t \in terms_in_doc THEN Append(Get(inv, t, <<>>), doc_id) ELSE inv[t]]

index_document(e, doc_id, filename, content) ==
    LET preprocessed_tokens == preprocess_text(content)
        terms_in_doc == {preprocessed_tokens[j][1] : j \in 1..Len(preprocessed_tokens)}
    IN Engine(Put(e.doc_ids, doc_id, filename),
              add_postings(e.inverted_index, doc_id, terms_in_doc),
              add_positions(e.positional_index, doc_id, preprocessed_tokens, 1))

\* the doc_id that the loop of line 64 gives to the entry at place i of the listing
doc_id_of(c, i) == i - 1

RECURSIVE scan_folder(_, _, _)
\* lines 64-89: for doc_id, filename in enumerate(os.listdir(self.docs_folder))
scan_folder(e, c, i) ==
    IF i > Len(c) THEN e
    ELSE IF c[i].ext # "txt" THEN scan_folder(e, c, i + 1)
    ELSE scan_folder(index_document(e, doc_id_of(c, i), filename_of(c, i), c[i].text),
                     c, i + 1)

(***************************************************************************)
(* str(doc_id) and int(key): decimal digits.                               *)
(***************************************************************************)
Digits == <<"0", "1", "2", "3", "4", "5", "6", "7", "8", "9">>

RECURSIVE str(_)
str(n) == IF n < 10 THEN <<Digits[n + 1]>>
          ELSE str(n \div 10) \o <<Digits[(n % 10) + 1]>>

digit_value(ch) == CHOOSE v \in 0..9 : Digits[v + 1] = ch

RECURSIVE int(_)
int(s) == IF Len(s) = 1 THEN digit_value(s[1])
          ELSE 10 * int(SubSeq(s, 1, Len(s) - 1)) + digit_value(s[Len(s)])

(***************************************************************************)
(* _save_indexes: the JSON object written to indexes.json.  The created_at *)
(* timestamp of the metadata is left out: nothing reads it.                *)
(***************************************************************************)
save_indexes(e) ==
    [metadata |->
        [total_documents |-> Cardinality(DOMAIN e.doc_ids),
         total_terms |-> Cardinality(DOMAIN e.inverted_index)],
     document_mapping |->
        [key \in {str(d) : d \in DOMAIN e.doc_ids} |->
            LET d == CHOOSE x \in DOMAIN e.doc_ids : str(x) = key
            IN [filename |-> e.doc_ids[d],
                path |-> <<docs_folder, e.doc_ids[d]>>]],
     inverted_index |->
        [term \in DOMAIN e.inverted_index |->
            [document_frequency |-> Len(e.inverted_index[term]),
             postings |-> e.inverted_index[term]]],
     positional_index |->
        [term \in DOMAIN e.positional_index |->
            [key \in {str(d) : d \in DOMAIN e.positional_index[term]} |->
                LET d == CHOOSE x \in DOMAIN e.positional_index[term] : str(x) = key
                IN e.positional_index[term][d]]]]

Sections == {"metadata", "document_mapping", "inverted_index", "positional_index"}

\* the file as _save_indexes leaves it
written(data) == [exists |-> TRUE, valid_json |-> TRUE, sections |-> Sections, data |-> data]

no_file == [exists |-> FALSE, valid_json |-> FALSE, sections |-> {},
            data |-> save_indexes(new_engine)]

(***************************************************************************)
(* _load_indexes: assigns self.doc_ids, self.inverted_index and            *)
(* self.positional_index one after the other; an exception (json.load on   *)
(* an unparsable file, KeyError on a missing section) leaves what was      *)
(* assigned before it.                                                     *)
(***************************************************************************)
\* load_positional where each doc_id of a term replaces the term's whole entry:
\* self.positional_index[term] = {int(doc_id): positions}
load_positional_overwrite(section) ==
    [term \in DOMAIN section |->
        IF DOMAIN section[term] = {} THEN EmptyDict
        ELSE LET last == CHOOSE key \in DOMAIN section[term] :
                             \A other \in DOMAIN section[term] : int(other) <= int(key)
             IN [d \in {int(last)} |-> section[term][last]]]

load_positional(section) ==
    [term \in DOMAIN section |->
        [d \in {int(key) : key \in DOMAIN section[term]} |->
            LET key == CHOOSE x \in DOMAIN section[term] : int(x) = d
            IN section[term][key]]]

load_document_mapping(section) ==
    [d \in {int(key) : key \in DOMAIN section} |->
        LET key == CHOOSE x \in DOMAIN section : int(x) = d
        IN section[key].filename]

load_inverted(section) == [term \in DOMAIN section |-> section[term].postings]

load_indexes(e, file) ==
    IF ~file.valid_json \/ "document_mapping" \notin file.sections
    THEN [ok |-> FALSE, engine |-> e]
    ELSE LET d == load_document_mapping(file.data.document_mapping)
         IN IF "inverted_index" \notin file.sections
            THEN [ok |-> FALSE, engine |-> Engine(d, EmptyDict, e.positional_index)]
            ELSE LET inv == load_inverted(file.data.inverted_index)
                 IN IF "positional_index" \notin file.sections
                    THEN [ok |-> FALSE, engine |-> Engine(d, inv, EmptyDict)]
                    ELSE [ok |-> TRUE,
                          engine |-> Engine(d, inv,
                                            load_positional(file.data.positional_index))]

(***************************************************************************)
(* _build_indexes as __init__ calls it: load the snapshot if there is one, *)
(* and on any exception of the load go on to scan the folder, into the     *)
(* indexes as the failed load left them; then save.                        *)
(***************************************************************************)
build_indexes(e, c, file) ==
    LET loaded == IF file.exists THEN load_indexes(e, file)
                  ELSE [ok |-> FALSE, engine |-> e]
    IN IF file.exists /\ loaded.ok
       THEN [engine |-> loaded.engine, file |-> file, how |-> "loaded"]
       ELSE LET built == scan_folder(loaded.engine, c, 1)
            IN [engine |-> built, file |-> written(save_indexes(built)),
                how |-> IF file.exists THEN "rebuilt" ELSE "built"]

(***************************************************************************)
(* Query text.  A lexeme is a word, a run-free whitespace character, a     *)
(* parenthesis, a slash, a number (\d+), or the placeholder text           *)
(* f"RESULT_{hash(str(inner_result))}", which is identified by the list it *)
(* was made from.                                                          *)
(***************************************************************************)
Lexeme(kind, word, number, list) == [k |-> kind, w |-> word, n |-> number, r |-> list]

W(word) == Lexeme("w", word, 0, <<>>)

SP == Lexeme("sp", " ", 0, <<>>)

LP == Lexeme("(", "(", 0, <<>>)

RP == Lexeme(")", ")", 0, <<>>)

SLASH == Lexeme("/", "/", 0, <<>>)

NUM(number) == Lexeme("n", "", number, <<>>)

\* placeholder = f"RESULT_{hash(str(inner_result))}", line 254
RESULT(inner_result) == Lexeme("ph", "RESULT_", 0, inner_result)

Operators == {"AND", "OR", "NOT"}

is_operator(x) == x.k = "w" /\ x.w \in Operators

\* 'sub' in query
contains(q, sub) ==
    \E i \in 1..(Len(q) - Len(sub) + 1) : SubSeq(q, i, i + Len(sub) - 1) = sub

RECURSIVE skip_spaces(_, _)
\* the first place from i on that holds no whitespace
skip_spaces(q, i) == IF i <= Len(q) /\ q[i].k = "sp" THEN skip_spaces(q, i + 1) ELSE i

\* s.strip()
strip(q) ==
    LET first == skip_spaces(q, 1)
        last == CHOOSE j \in 0..Len(q) :
                    /\ \A m \in (j + 1)..Len(q) : q[m].k = "sp"
                    /\ (j >= 1 => q[j].k # "sp")
    IN IF first > Len(q) THEN <<>> ELSE SubSeq(q, first, last)

RECURSIVE split_operators(_, _, _)
\* re.split(r'\s+(AND|OR|NOT)\s+', query): the pieces between the operators that
\* stand between whitespace, and the operators themselves
split_operators(q, start, i) ==
    IF i > Len(q) THEN <<SubSeq(q, start, Len(q))>>
    ELSE IF q[i].k # "sp" THEN split_operators(q, start, i + 1)
    ELSE LET j == skip_spaces(q, i)
         IN IF j + 1 <= Len(q) /\ is_operator(q[j]) /\ q[j + 1].k = "sp"
            THEN LET m == skip_spaces(q, j + 1)
                 IN <<SubSeq(q, start, i - 1), <<q[j]>>>> \o split_operators(q, m, m)
            ELSE split_operators(q, start, j)

RECURSIVE split_whitespace(_, _)
\* s.split(): the maximal pieces free of whitespace
split_whitespace(q, i) ==
    LET from == skip_spaces(q, i)
        to == CHOOSE j \in from..(Len(q) + 1) :
                  /\ \A m \in from..(j - 1) : q[m].k # "sp"
                  /\ (j <= Len(q) => q[j].k = "sp")
    IN IF from > Len(q) THEN <<>>
       ELSE <<SubSeq(q, from, to - 1)>> \o split_whitespace(q, to)

(***************************************************************************)
(* self.inverted_index.get(self.stemmer.stem(term.lower()), []).  The keys *)
(* of the index are stems of alphabetic tokens, so a piece of query text   *)
(* that is not one word (it holds a parenthesis, whitespace, a digit or    *)
(* the placeholder's underscore) is no key.                                *)
(***************************************************************************)
postings_of(inv, term) ==
    IF Len(term) = 1 /\ term[1].k = "w"
    THEN Get(inv, stem(lower(term[1].w)), <<>>)
    ELSE <<>>

\* apply_operator with the operands of the difference exchanged
apply_operator_reversed(operator, result_set, term_docs) ==
    CASE operator = "AND" -> result_set \cap term_docs
      [] operator = "OR" -> result_set \cup term_docs
      [] operator = "NOT" -> term_docs \ result_set
      [] OTHER -> result_set

\* lines 220-225 and 290-295
apply_operator(operator, result_set, term_docs) ==
    CASE operator = "AND" -> result_set \cap term_docs
      [] operator = "OR" -> result_set \cup term_docs
      [] operator = "NOT" -> result_set \ term_docs
      [] OTHER -> result_set

Returned(docs) == [kind |-> "list", docs |-> docs]

RecursionError == [kind |-> "RecursionError", docs |-> <<>>]

RECURSIVE boolean_loop(_, _, _, _)
\* lines 209-227
boolean_loop(inv, tokens, i, result_set) ==
    IF i > Len(tokens) THEN result_set
    ELSE LET operator == tokens[i][1].w
             term == IF i + 1 <= Len(tokens) THEN tokens[i + 1] ELSE <<>>
         IN IF term = <<>> THEN result_set
            ELSE boolean_loop(inv, tokens, i + 2,
                              apply_operator(operator, result_set,
                                             Range(postings_of(inv, term))))

RECURSIVE bracketed_loop(_, _, _, _, _, _)
\* lines 275-297
bracketed_loop(inv, tokens, i, result_set, placeholder, inner_result) ==
    IF i > Len(tokens) THEN result_set
    ELSE LET operator == tokens[i][1].w
             term == IF i + 1 <= Len(tokens) THEN tokens[i + 1] ELSE <<>>
             term_docs == IF term = <<placeholder>> THEN Range(inner_result)
                          ELSE Range(postings_of(inv, term))
         IN IF term = <<>> THEN result_set
            ELSE bracketed_loop(inv, tokens, i + 2,
                                apply_operator(operator, result_set, term_docs),
                                placeholder, inner_result)

RECURSIVE find_group(_, _, _)
\* lines 239-248: the first ')' met while the stack of '(' is not empty, and the
\* '(' it pops; start = 0 stands for the code's start = -1
find_group(q, i, stack) ==
    IF i > Len(q) THEN [start |-> 0, end |-> 0]
    ELSE IF q[i].k = "(" THEN find_group(q, i + 1, Append(stack, i))
    ELSE IF q[i].k = ")" /\ stack # <<>> THEN [start |-> stack[Len(stack)], end |-> i]
    ELSE find_group(q, i + 1, stack)

has_paren(q) == \E i \in 1..Len(q) : q[i].k = "("

RECURSIVE process_boolean_query(_, _, _)
RECURSIVE process_bracketed_query(_, _, _)

\* lines 192-229; depth is the number of frames in use, this call included
process_boolean_query(inv, q, depth) ==
    IF depth > RecursionLimit THEN RecursionError
    ELSE IF has_paren(q) THEN process_bracketed_query(inv, q, depth + 1)
    ELSE LET tokens == split_operators(q, 1, 1)
         IN IF Len(tokens) = 1
            THEN Returned(sorted(postings_of(inv, tokens[1])))
            ELSE Returned(sorted(list_of(
                     boolean_loop(inv, tokens, 2, Range(postings_of(inv, tokens[1]))))))

\* lines 231-301
process_bracketed_query(inv, q, depth) ==
    IF depth > RecursionLimit THEN RecursionError
    ELSE IF ~has_paren(q) THEN process_boolean_query(inv, q, depth + 1)
    ELSE LET g == find_group(q, 1, <<>>)
         IN IF g.start = 0 THEN process_boolean_query(inv, q, depth + 1)
            ELSE LET inner_expr == strip(SubSeq(q, g.start + 1, g.end - 1))
                     inner == process_boolean_query(inv, inner_expr, depth + 1)
                     placeholder == RESULT(inner.docs)
                     new_query == SubSeq(q, 1, g.start - 1) \o <<placeholder>>
                                      \o SubSeq(q, g.end + 1, Len(q))
                     final == process_bracketed_query(inv, new_query, depth + 1)
                     tokens == split_operators(new_query, 1, 1)
                     first == IF tokens[1] = <<placeholder>> THEN Range(inner.docs)
                              ELSE Range(postings_of(inv, tokens[1]))
                 \* line 261 compares the first doc_id of final_result with the text
                 \* "RESULT_": it is an integer, so that return is never taken
                 IN IF inner.kind # "list" THEN inner
                    ELSE IF final.kind # "list" THEN final
                    ELSE Returned(sorted(list_of(
                             bracketed_loop(inv, tokens, 2, first,
                                            placeholder, inner.docs))))

(***************************************************************************)
(* _process_proximity_query, lines 304-345.                                *)
(***************************************************************************)
\* re.match(r'(.*?)\s+(/\s*(\d+))$', query): the query ends with whitespace, a
\* slash, optional whitespace and a number; group 1 is what stands before that
\* whitespace.  at = 0: no match.
match_proximity(q) ==
    LET n == Len(q)
        slash == IF n >= 1 /\ q[n].k = "n"
                 THEN CHOOSE j \in 0..(n - 1) :
                          /\ \A m \in (j + 1)..(n - 1) : q[m].k = "sp"
                          /\ (j >= 1 => q[j].k # "sp")
                 ELSE 0
        before == IF slash >= 2 /\ q[slash].k = "/" /\ q[slash - 1].k = "sp"
                  THEN CHOOSE j \in 0..(slash - 1) :
                           /\ \A m \in (j + 1)..(slash - 1) : q[m].k = "sp"
                           /\ (j >= 1 => q[j].k # "sp")
                  ELSE -1
    IN IF before = -1 THEN [at |-> 0, terms_part |-> <<>>, k |-> 0]
       ELSE [at |-> slash, terms_part |-> SubSeq(q, 1, before), k |-> q[n].n]

\* stemmed_terms: the key a piece of text makes; a piece that is not one word
\* is no key of either index
stemmed_term(term) ==
    IF Len(term) = 1 /\ term[1].k = "w" THEN stem(lower(term[1].w)) ELSE "?"

RECURSIVE any_within_strict(_, _, _, _)
\* any_within with abs(pos1 - pos2) < k
any_within_strict(pos1, positions2, j, k) ==
    IF j > Len(positions2) THEN FALSE
    ELSE IF (IF pos1 >= positions2[j] THEN pos1 - positions2[j]
             ELSE positions2[j] - pos1) < k THEN TRUE
    ELSE any_within_strict(pos1, positions2, j + 1, k)

RECURSIVE any_within(_, _, _, _)
\* lines 337-340: for pos2 in positions2: if abs(pos1 - pos2) <= k
any_within(pos1, positions2, j, k) ==
    IF j > Len(positions2) THEN FALSE
    ELSE IF (IF pos1 >= positions2[j] THEN pos1 - positions2[j]
             ELSE positions2[j] - pos1) <= k THEN TRUE
    ELSE any_within(pos1, positions2, j + 1, k)

RECURSIVE check_document(_, _, _, _, _, _)
\* lines 336-343: for pos1 in positions1: ...; the doc_id is appended once, at the
\* first pair found, and both loops are left
check_document(result_docs, doc_id, positions1, positions2, i, k) ==
    IF i > Len(positions1) THEN result_docs
    ELSE IF any_within(positions1[i], positions2, 1, k) THEN Append(result_docs, doc_id)
    ELSE check_document(result_docs, doc_id, positions1, positions2, i + 1, k)

\* self.positional_index[term][doc_id] on a defaultdict of defaultdict(list):
\* reading a missing entry creates it
touch(pos, term, doc_id) ==
    Put(pos, term, Put(Get(pos, term, EmptyDict), doc_id,
                       Get(Get(pos, term, EmptyDict), doc_id, <<>>)))

RECURSIVE check_documents(_, _, _, _, _, _)
\* lines 331-343: for doc_id in common_docs
check_documents(pos, docs, i, terms, k, result_docs) ==
    IF i > Len(docs) THEN [positional_index |-> pos, result_docs |-> result_docs]
    ELSE LET touched == touch(touch(pos, terms[1], docs[i]), terms[2], docs[i])
         IN check_documents(touched, docs, i + 1, terms, k,
                check_document(result_docs, docs[i], touched[terms[1]][docs[i]],
                               touched[terms[2]][docs[i]], 1, k))

Reply(kind, docs, printed, pos) ==
    [kind |-> kind, docs |-> docs, printed |-> printed, positional_index |-> pos]

process_proximity_query(inv, pos, q) ==
    LET match == match_proximity(q)
        terms == split_whitespace(match.terms_part, 1)
    IN IF match.at = 0 THEN Reply("list", <<>>, TRUE, pos)
       ELSE IF Len(terms) # 2 THEN Reply("list", <<>>, TRUE, pos)
       ELSE LET stemmed_terms == <<stemmed_term(terms[1]), stemmed_term(terms[2])>>
                docs_term1 == Range(Get(inv, stemmed_terms[1], <<>>))
                docs_term2 == Range(Get(inv, stemmed_terms[2], <<>>))
                common_docs == docs_term1 \cap docs_term2
                checked == check_documents(pos, list_of(common_docs), 1,
                                           stemmed_terms, match.k, <<>>)
            IN Reply("list", sorted(checked.result_docs), FALSE,
                     checked.positional_index)

(***************************************************************************)
(* process_query, lines 174-189.                                           *)
(***************************************************************************)
is_proximity(q) == \E i \in 1..Len(q) : q[i].k = "/"

is_boolean(q) ==
    \/ contains(q, <<SP, W("AND"), SP>>)
    \/ contains(q, <<SP, W("OR"), SP>>)
    \/ contains(q, <<W("NOT"), SP>>)

\* process_query with the boolean test made before the proximity test
process_query_boolean_first(inv, pos, q) ==
    IF is_boolean(q)
    THEN LET r == process_boolean_query(inv, q, 2)
         IN Reply(r.kind, r.docs, FALSE, pos)
    ELSE IF is_proximity(q) THEN process_proximity_query(inv, pos, q)
    ELSE Reply("list", sorted(postings_of(inv, strip(q))), FALSE, pos)

process_query(inv, pos, q) ==
    IF is_proximity(q) THEN process_proximity_query(inv, pos, q)
    ELSE IF is_boolean(q)
    THEN LET r == process_boolean_query(inv, q, 2)
         IN Reply(r.kind, r.docs, FALSE, pos)
    ELSE Reply("list", sorted(postings_of(inv, strip(q))), FALSE, pos)

(***************************************************************************)
(* The queries given to process_query.                                     *)
(***************************************************************************)
QueryTerms == {"Deep", "learning", "zzz"}

GroupTerms == {"Deep", "learning"}

T(word) == <<W(word)>>

Bin(left, operator, right) == left \o <<SP, W(operator), SP>> \o right

Paren(q) == <<LP>> \o q \o <<RP>>

RECURSIVE FlatQueriesOfOps(_)
\* t0 op1 t1 ... opn tn
FlatQueriesOfOps(n) ==
    IF n = 0 THEN {T(t) : t \in QueryTerms}
    ELSE {Bin(q, op, T(t)) : q \in FlatQueriesOfOps(n - 1), op \in Operators, t \in QueryTerms}

SimpleQueries == FlatQueriesOfOps(0)

FlatQueries == UNION {FlatQueriesOfOps(n) : n \in 1..MaxOps}

Pairs == {Bin(T(a), op, T(b)) : a \in GroupTerms, op \in Operators, b \in GroupTerms}

\* A op (B op C) and (A op B) op C
OneGroupQueries ==
    {Bin(T(a), op, Paren(p)) : a \in GroupTerms, op \in Operators, p \in Pairs}
        \cup {Bin(Paren(p), op, T(a)) : a \in GroupTerms, op \in Operators, p \in Pairs}

\* A op (B op (C op D))
NestedQueries ==
    {Bin(T(a), op1, Paren(Bin(T(b), op2, Paren(p)))) :
        a \in GroupTerms, op1 \in Operators, b \in GroupTerms, op2 \in Operators, p \in Pairs}

\* (A op B) op (C op D)
SiblingQueries == {Bin(Paren(p), op, Paren(r)) : p \in Pairs, op \in Operators, r \in Pairs}

GroupQueries == OneGroupQueries \cup NestedQueries \cup SiblingQueries

\* A op (B    (A op B    A op B)
UnbalancedQueries ==
    {Bin(T(a), op, <<LP>> \o T(b)) : a \in GroupTerms, op \in Operators, b \in GroupTerms}
        \cup {<<LP>> \o p : p \in Pairs}
        \cup {p \o <<RP>> : p \in Pairs}

\* t1 t2 /k and t1 t2 / k
ProximityQueries ==
    {<<W(a), SP, W(b), SP, SLASH, NUM(k)>> : a \in QueryTerms, b \in QueryTerms, k \in 0..MaxK}
        \cup {<<W(a), SP, SP, W(b), SP, SLASH, SP, NUM(k)>> :
                 a \in GroupTerms, b \in GroupTerms, k \in 0..MaxK}

\* queries with a slash that are not of the form t1 t2 /k
MalformedQueries ==
    UNION {{<<W(a), SP, SLASH, NUM(k)>>,
            <<W(a), SP, W(b), SP, W(a), SP, SLASH, NUM(k)>>,
            <<W(a), SP, W(b), SLASH, NUM(k)>>,
            <<W(a), SP, W(b), SP, SLASH>>,
            <<W(a), SP, W(b), SP, SLASH, W(a)>>,
            <<W(a), SP, W(b), SP, SLASH, NUM(k), SP>>,
            <<W(a), SP, W(b), SP, SLASH, NUM(k), SP, W(a)>>,
            <<SLASH, NUM(k)>>,
            <<SP, SLASH, NUM(k)>>,
            <<W(a), SLASH, W(b)>>,
            Bin(T(a), "AND", T(b)) \o <<SP, SLASH, NUM(k)>>,
            Bin(T(a), "NOT", T(b)) \o <<SLASH, NUM(k)>>} :
           a \in GroupTerms, b \in GroupTerms, k \in 0..MaxK}

Queries == SimpleQueries \cup FlatQueries \cup GroupQueries \cup UnbalancedQueries
               \cup ProximityQueries \cup MalformedQueries

\* the queries of the lifecycle specification: one or two of each kind
SampleQueries ==
    {T("Deep"),
     Bin(T("Deep"), "AND", T("learning")),
     Bin(T("Deep"), "OR", Paren(Bin(T("learning"), "NOT", T("Deep")))),
     <<W("Deep"), SP, W("learning"), SP, SLASH, NUM(1)>>,
     <<W("Deep"), SP, SLASH, NUM(1)>>}

no_query == <<>>

no_result == [kind |-> "none", docs |-> <<>>, printed |-> FALSE]

(***************************************************************************)
(* The lifecycle: the program is started (__init__ runs _build_indexes),   *)
(* answers queries, and exits; between runs the snapshot file may be       *)
(* damaged.                                                                *)
(***************************************************************************)
Init ==
    /\ corpus \in Corpora
    /\ indexes_json = no_file
    /\ running = FALSE
    /\ doc_ids = new_engine.doc_ids
    /\ inverted_index = new_engine.inverted_index
    /\ positional_index = new_engine.positional_index
    /\ origin = "none"
    /\ damages = 0
    /\ query = no_query
    /\ result = no_result

\* InformationRetrievalSystem(docs_folder, stop_words_file)
Construct ==
    /\ ~running
    /\ LET b == build_indexes(new_engine, corpus, indexes_json)
       IN /\ doc_ids' = b.engine.doc_ids
          /\ inverted_index' = b.engine.inverted_index
          /\ positional_index' = b.engine.positional_index
          /\ indexes_json' = b.file
          /\ origin' = b.how
    /\ running' = TRUE
    /\ UNCHANGED <<corpus, damages, query, result>>

\* doc_ids = ir_system.process_query(query), at the prompt of the query loop
ProcessQuery(q) ==
    /\ running
    /\ result = no_result
    /\ LET r == process_query(inverted_index, positional_index, q)
       IN /\ result' = [kind |-> r.kind, docs |-> r.docs, printed |-> r.printed]
          /\ positional_index' = r.positional_index
    /\ query' = q
    /\ UNCHANGED <<corpus, indexes_json, running, doc_ids, inverted_index, origin, damages>>

\* ir_system.print_results(doc_ids): the reply is shown and the loop prompts again
PrintResults ==
    /\ running
    /\ result # no_result
    /\ query' = no_query
    /\ result' = no_result
    /\ UNCHANGED <<corpus, indexes_json, running, doc_ids, inverted_index,
                   positional_index, origin, damages>>

\* the program exits: the instance is gone, the snapshot file stays
Shutdown ==
    /\ running
    /\ running' = FALSE
    /\ doc_ids' = new_engine.doc_ids
    /\ inverted_index' = new_engine.inverted_index
    /\ positional_index' = new_engine.positional_index
    /\ origin' = "none"
    /\ query' = no_query
    /\ result' = no_result
    /\ UNCHANGED <<corpus, indexes_json, damages>>

\* between two runs the snapshot file becomes unparsable or loses a section
DamageSnapshot(what) ==
    /\ ~running
    /\ indexes_json.exists
    /\ damages < MaxDamages
    /\ indexes_json' =
           IF what = "json" THEN [indexes_json EXCEPT !.valid_json = FALSE]
           ELSE [indexes_json EXCEPT !.sections = @ \ {what}]
    /\ indexes_json' # indexes_json
    /\ damages' = damages + 1
    /\ UNCHANGED <<corpus, running, doc_ids, inverted_index, positional_index,
                   origin, query, result>>

Next ==
    \/ Construct
    \/ \E q \in SampleQueries : ProcessQuery(q)
    \/ PrintResults
    \/ Shutdown
    \/ \E what \in Sections \cup {"json"} : DamageSnapshot(what)

Spec == Init /\ [][Next]_vars

(***************************************************************************)
(* Query evaluation: an engine constructed over one of a few corpora, from *)
(* no snapshot or from a damaged one, is given every query of Queries.     *)
(***************************************************************************)
Doc(text) == [ext |-> "txt", text |-> text]

NotADoc == [ext |-> "png", text |-> <<>>]

QueryCorpora ==
    {<<Doc(<<"Deep", "learning">>), Doc(<<"Deep", "of", "learning">>)>>,
     <<Doc(<<"Deep", "of", "learning">>), Doc(<<"learning">>)>>,
     <<NotADoc, Doc(<<"Deep", "Deep">>), Doc(<<"learning", "Deep">>)>>,
     <<Doc(<<"learning", "of", "of", "Deep">>), Doc(<<"Deep">>), Doc(<<"of">>)>>,
     <<Doc(<<"learning">>), Doc(<<"Deep">>), Doc(<<"Deep", "learning", "learning">>)>>}

\* the snapshot files a run over corpus c can find
SnapshotsOf(c) ==
    LET file == written(save_indexes(scan_folder(new_engine, c, 1)))
    IN {no_file, file, [file EXCEPT !.valid_json = FALSE]}
           \cup {[file EXCEPT !.sections = @ \ {what}] : what \in Sections}

InitQ ==
    /\ corpus \in QueryCorpora
    /\ \E file \in SnapshotsOf(corpus) :
           LET b == build_indexes(new_engine, corpus, file)
           IN /\ doc_ids = b.engine.doc_ids
              /\ inverted_index = b.engine.inverted_index
              /\ positional_index = b.engine.positional_index
              /\ indexes_json = b.file
              /\ origin = b.how
              /\ damages = IF file \in {no_file, written(file.data)} THEN 0 ELSE 1
    /\ running = TRUE
    /\ query = no_query
    /\ result = no_result

NextQ ==
    \/ \E q \in Queries : ProcessQuery(q)
    \/ PrintResults

SpecQ == InitQ /\ [][NextQ]_vars

(***************************************************************************)
(* The lifecycle over a folder that changes between two runs: the listing  *)
(* os.listdir gives is read anew by every scan, while the snapshot file    *)
(* still holds what an earlier run found.                                  *)
(***************************************************************************)
\* between two runs the last entry of the listing is deleted from the folder
DeleteEntry ==
    /\ ~running
    /\ Len(corpus) >= 1
    /\ corpus' = SubSeq(corpus, 1, Len(corpus) - 1)
    /\ UNCHANGED <<indexes_json, running, doc_ids, inverted_index, positional_index,
                   origin, damages, query, result>>

NextF ==
    \/ Construct
    \/ \E q \in SampleQueries : ProcessQuery(q)
    \/ PrintResults
    \/ Shutdown
    \/ \E what \in Sections \cup {"json"} : DamageSnapshot(what)
    \/ DeleteEntry

SpecF == Init /\ [][NextF]_vars

(***************************************************************************)
(* What the claims speak of.                                               *)
(***************************************************************************)
\* seq lists the set S once each, in ascending order
IsAscendingListOf(seq, S) ==
    /\ Range(seq) = S
    /\ \A i \in 1..Len(seq) : \A j \in 1..Len(seq) : i < j => seq[i] < seq[j]

\* the documents of an operand: the postings of a term's stem (none for a term
\* the index does not hold), or the set a resolved group stands for
OperandDocs(x) ==
    IF x.k = "ph" THEN Range(x.r)
    ELSE IF stem(lower(x.w)) \in DOMAIN inverted_index
    THEN Range(inverted_index[stem(lower(x.w))])
    ELSE {}

SetOperation(operator, left, right) ==
    IF operator = "AND" THEN left \cap right
    ELSE IF operator = "OR" THEN left \cup right
    ELSE left \ right

NonSpace(q) == SelectSeq(q, LAMBDA x : x.k # "sp")

RECURSIVE LeftToRight(_, _, _)
LeftToRight(items, i, acc) ==
    IF i + 1 > Len(items) THEN acc
    ELSE LeftToRight(items, i + 2, SetOperation(items[i].w, acc, OperandDocs(items[i + 1])))

\* t0 op1 t1 ... opn tn evaluated strictly left to right
FlatValue(q) == LET items == NonSpace(q) IN LeftToRight(items, 2, OperandDocs(items[1]))

RECURSIVE GroupedValue(_)
\* innermost group first: its value becomes one operand of the enclosing expression
GroupedValue(q) ==
    IF \A i \in 1..Len(q) : q[i].k # ")" THEN FlatValue(q)
    ELSE LET close == CHOOSE i \in 1..Len(q) :
                          q[i].k = ")" /\ \A j \in 1..(i - 1) : q[j].k # ")"
             open == CHOOSE i \in 1..(close - 1) :
                         q[i].k = "(" /\ \A j \in (i + 1)..(close - 1) : q[j].k # "("
             inner == FlatValue(SubSeq(q, open + 1, close - 1))
         IN GroupedValue(SubSeq(q, 1, open - 1) \o <<RESULT(sorted(list_of(inner)))>>
                             \o SubSeq(q, close + 1, Len(q)))

\* C1: a balanced bracketed query, nested or with sibling groups, returns the
\* ascending list of the set got by resolving the innermost group first and using
\* its set as one operand of the enclosing expression.
C1_InnermostFirst ==
    (query \in GroupQueries /\ result # no_result) =>
        /\ result.kind = "list"
        /\ IsAscendingListOf(result.docs, GroupedValue(query))

\* C2: a parenthesis-free boolean query returns, ascending, the set computed
\* strictly left to right: AND intersects, OR unites, NOT subtracts the term's
\* postings from the running result; an unknown term contributes the empty set.
C2_LeftToRight ==
    (query \in FlatQueries /\ result # no_result) =>
        /\ result.kind = "list"
        /\ IsAscendingListOf(result.docs, FlatValue(query))

\* a query where grouping from the right would give another answer: the
\* documents of t0 survive OR t1 NOT t1 only if the NOT is applied last
C2_Witness ==
    /\ query \in FlatQueriesOfOps(2)
    /\ query[3].w = "OR" /\ query[7].w = "NOT"
    /\ result.docs # <<>>
    /\ OperandDocs(query[1]) \cap OperandDocs(query[9]) # {}
    /\ \E d \in OperandDocs(query[1]) : d \notin Range(result.docs)

PositionsOf(term, d) ==
    IF term \in DOMAIN positional_index /\ d \in DOMAIN positional_index[term]
    THEN Range(positional_index[term][d])
    ELSE {}

Distance(a, b) == IF a >= b THEN a - b ELSE b - a

\* the documents a proximity query t1 t2 /k is to return
ProximityValue(q) ==
    LET items == NonSpace(q)
        t1 == stem(lower(items[1].w))
        t2 == stem(lower(items[2].w))
        k == items[4].n
    IN {d \in OperandDocs(items[1]) \cap OperandDocs(items[2]) :
           \E p1 \in PositionsOf(t1, d) : \E p2 \in PositionsOf(t2, d) :
               Distance(p1, p2) <= k}

\* the form "term1 term2 /k": two words separated by whitespace, whitespace, a
\* slash and a number that ends the query
WellFormedProximity(q) ==
    LET items == NonSpace(q)
    IN /\ Len(items) = 4
       /\ items[1].k = "w" /\ items[2].k = "w" /\ items[3].k = "/" /\ items[4].k = "n"
       /\ q[1].k = "w" /\ q[2].k = "sp" /\ q[Len(q)].k = "n"
       /\ \A i \in 2..Len(q) : q[i].k = "/" => q[i - 1].k = "sp"

\* C3: a well-formed proximity query returns exactly the documents in the posting
\* lists of both stems that hold positions p1, p2 of the two stems with
\* |p1 - p2| <= k, each once, ascending.
C3_Proximity ==
    (WellFormedProximity(query) /\ result # no_result) =>
        /\ result.kind = "list"
        /\ IsAscendingListOf(result.docs, ProximityValue(query))

\* a proximity query that keeps one document of both posting lists and drops another
C3_Witness ==
    /\ WellFormedProximity(query)
    /\ result.docs # <<>>
    /\ \E d \in OperandDocs(NonSpace(query)[1]) \cap OperandDocs(NonSpace(query)[2]) :
           d \notin Range(result.docs)

HasSlash(q) == \E i \in 1..Len(q) : q[i].k = "/"

\* C7: a query with a slash that is not of the form "term1 term2 /k" is taken as a
\* proximity query, reported, answered with the empty list without raising, and
\* leaves the document map and both indexes as they were.
C7_MalformedProximity ==
    [][(HasSlash(query') /\ ~WellFormedProximity(query') /\ result' # no_result) =>
           /\ result' = [kind |-> "list", docs |-> <<>>, printed |-> TRUE]
           /\ doc_ids' = doc_ids
           /\ inverted_index' = inverted_index
           /\ positional_index' = positional_index]_vars

\* a query with a slash and a boolean operator was reported as a bad proximity query
C7_Witness ==
    /\ HasSlash(query)
    /\ is_boolean(query)
    /\ result = [kind |-> "list", docs |-> <<>>, printed |-> TRUE]
    /\ DOMAIN inverted_index # {}

\* C10: process_query returns a list of doc_ids for every query, also for one
\* whose parentheses are unbalanced.
C10_ReturnsList == result # no_result => result.kind = "list"

(***************************************************************************)
(* Construction.                                                           *)
(***************************************************************************)
\* the text of the document that has doc_id d
TextOf(d) == corpus[doc_ids[d].index].text

\* the stems of the tokens of a text that are no stop words, in token order
RetainedStems(text) ==
    LET kept == SelectSeq([i \in 1..Len(text) |-> lower(text[i])],
                          LAMBDA w : w \notin stop_words)
    IN [j \in 1..Len(kept) |-> stem(kept[j])]

Stems == {stem(lower(w)) : w \in TextWords}

\* C4: the position of a retained token is its 0-based index among the retained
\* tokens: the normalizer numbers them 0, 1, ..., n-1 in token order, and these
\* are the positions the positional index holds for the document.
C4_RetainedPositions ==
    running =>
        /\ \A i \in 1..Len(corpus) :
               LET toks == preprocess_text(corpus[i].text)
               IN \A j \in 1..Len(toks) : toks[j][2] = j - 1
        /\ \A d \in DOMAIN doc_ids :
               UNION {PositionsOf(term, d) : term \in Stems}
                   = 0..(Len(RetainedStems(TextOf(d))) - 1)

\* C5: saving the indexes of an engine and loading the snapshot written gives back
\* the same document map, posting lists and positions, with integer doc_ids.
C5_RoundTrip ==
    running =>
        LET loaded == load_indexes(new_engine, written(save_indexes(this_engine)))
        IN /\ loaded.ok
           /\ loaded.engine.doc_ids = doc_ids
           /\ loaded.engine.inverted_index = inverted_index
           /\ loaded.engine.positional_index = positional_index
           /\ DOMAIN loaded.engine.doc_ids \subseteq Nat
           /\ \A term \in DOMAIN loaded.engine.positional_index :
                  DOMAIN loaded.engine.positional_index[term] \subseteq Nat

\* an engine that loaded a snapshot in which a term stands in two documents
C5_Witness ==
    /\ running
    /\ origin = "loaded"
    /\ \E term \in DOMAIN positional_index : Cardinality(DOMAIN positional_index[term]) >= 2

\* C6: when the load of an existing snapshot fails, the engine ends with exactly
\* the document map and indexes of a build from the same corpus with no snapshot.
C6_FallbackIsFullRebuild ==
    (running /\ origin = "rebuilt") => this_engine = scan_folder(new_engine, corpus, 1)

\* the place in the listing of the j-th entry with the document extension (from 0)
PlaceOfDocument(j) ==
    CHOOSE i \in 1..Len(corpus) :
        /\ corpus[i].ext = "txt"
        /\ Cardinality({m \in 1..(i - 1) : corpus[m].ext = "txt"}) = j

\* C8: a build gives doc_id j to the j-th entry that has the document extension,
\* whatever stands before it in the listing.
C8_SequentialDocIds ==
    (running /\ origin = "built") =>
        LET n == Cardinality({i \in 1..Len(corpus) : corpus[i].ext = "txt"})
        IN /\ DOMAIN doc_ids = 0..(n - 1)
           /\ \A j \in 0..(n - 1) : doc_ids[j] = filename_of(corpus, PlaceOfDocument(j))

\* C9: in a constructed engine every posting list holds each doc_id at most once,
\* in build order, and holds d exactly when the term is a stem of a retained token
\* of document d.
C9_PostingLists ==
    running =>
        \A term \in Stems \cup DOMAIN inverted_index :
            LET postings == Get(inverted_index, term, <<>>)
            IN /\ \A i \in 1..Len(postings) : \A j \in 1..Len(postings) :
                      i < j => postings[i] < postings[j]
               /\ Range(postings) \subseteq DOMAIN doc_ids
               /\ \A d \in DOMAIN doc_ids :
                      d \in Range(postings) <=> term \in Range(RetainedStems(TextOf(d)))

(***************************************************************************)
(* Agreement of the two indexes.                                           *)
(***************************************************************************)
\* d is in the posting list of term exactly when the positional index holds a
\* non-empty position list for (term, d)
IndexesAgree(inv, pos) ==
    \A term \in DOMAIN inv \cup DOMAIN pos :
        \A d \in Range(Get(inv, term, <<>>)) \cup DOMAIN Get(pos, term, EmptyDict) :
            d \in Range(Get(inv, term, <<>>))
                <=> Get(Get(pos, term, EmptyDict), d, <<>>) # <<>>

\* C11: after any construction and after any sequence of queries the inverted and
\* the positional index agree (d is in the posting list of t exactly when the
\* positional index holds a non-empty position list for (t, d)), and no query
\* adds an entry to the positional index.
C11_IndexesAgree ==
    [][/\ running => IndexesAgree(inverted_index, positional_index)
       /\ running' => IndexesAgree(inverted_index', positional_index')
       /\ (running /\ running') => positional_index' = positional_index]_vars

====
